---- MODULE Spec2Model ----
(***************************************************************************)
(* Model of the item repository of crud2 (src/src/db.rs, src/src/models.rs)*)
(* over a PostgreSQL table `items`.                                        *)
(*                                                                         *)
(* Encodings.  An Option<T> is a sequence: <<>> is None, <<v>> is Some(v). *)
(* An f64 price is an integer number of thousandths (12345 is 12.345); a   *)
(* NUMERIC(10,2) price is an integer number of hundredths (1235 is 12.35). *)
(* The table is a set of rows; a row carries its id.                       *)
(*                                                                         *)
(* The start of the process and the connection pool (src/src/main.rs,      *)
(* get_db_pool) are modelled with the repository operations reduced to the *)
(* queries they issue on the pool.                                         *)
(***************************************************************************)
EXTENDS Integers, Sequences, FiniteSets, TLC

VARIABLES items, seq, pc, loc, resp, shown, written, deleted, log,
          config, main_pc, pool_res, calls, extension, task, conn

\* the store and the tasks that run repository operations on it
dvars == <<items, seq, pc, loc, resp, shown, written, deleted, log>>

\* the process: its configuration, main, the pool and the tasks that query it
svars == <<config, main_pc, pool_res, calls, extension, task, conn>>

vars == <<items, seq, pc, loc, resp, shown, written, deleted, log,
          config, main_pc, pool_res, calls, extension, task, conn>>

\* ------------------------------------------------------------------ bounds

\* ids the sequence may hand out in one behaviour of the concurrent specification
MaxId == 2

\* ids the sequence may hand out in one behaviour of the sequential specification
SoloMaxId == 1

\* requests that the server handles at the same time
NumTasks == 6

\* ------------------------------------------------------- program constants

\* NUMERIC(10,2): ten digits in all, two of them after the point
NumericPrecision == 10

NumericScale == 2

\* PgPoolOptions::new().max_connections(5)
max_connections == 5

\* ---------------------------------------------------------------- options

None == <<>>

Some(v) == <<v>>

\* Option::unwrap_or
unwrap_or(o, d) == IF o = None THEN d ELSE o[1]

\* faulty variant of or: the existing value wins over the supplied one
or_existing_first(o, other) == IF other # None THEN other ELSE o

\* faulty variant of or: the supplied value is bound as it is, absent or not
or_supplied_only(o, other) == o

\* Option::or
or(o, other) == IF o # None THEN o ELSE other

\* ------------------------------------------------------ numeric conversion

\* the f64 value +infinity, which a form field "inf" parses to
F64Infinity == 2000000000

Abs(x) == IF x < 0 THEN 0 - x ELSE x

Sgn(x) == IF x < 0 THEN 0 - 1 ELSE 1

\* float8 -> NUMERIC(_,2) as the store assigns it: rounded to two decimals,
\* half away from zero.  Thousandths in, hundredths out.
ToNumeric(f) == Sgn(f) * ((Abs(f) + 5) \div 10)

\* NUMERIC(10,2) holds a finite value of at most 10 - 2 digits before the point
NumericFits(f) ==
    /\ f # F64Infinity
    /\ Abs(ToNumeric(f)) \div (10 ^ NumericScale) < 10 ^ (NumericPrecision - NumericScale)

\* price::double precision.  Hundredths in, thousandths out.
ToDouble(c) == c * 10

\* ------------------------------------------------------------------- rows

\* FromRow for Item, over the RETURNING / SELECT column list
ToItem(r) ==
    [id |-> r.id, name |-> r.name, description |-> r.description,
     quantity |-> r.quantity, price |-> ToDouble(r.price), created_at |-> r.created_at]

Ids(tbl) == {r.id : r \in tbl}

RowOf(tbl, id) == CHOOSE r \in tbl : r.id = id

MinOf(S) == CHOOSE m \in S : \A x \in S : m <= x

MaxOf(S) == CHOOSE m \in S : \A x \in S : x <= m

\* faulty variant of Ascending: the ids the other way round
RECURSIVE Descending(_)
Descending(S) == IF S = {} THEN <<>> ELSE <<MaxOf(S)>> \o Descending(S \ {MaxOf(S)})

RECURSIVE Ascending(_)
Ascending(S) == IF S = {} THEN <<>> ELSE <<MinOf(S)>> \o Ascending(S \ {MinOf(S)})

\* SELECT ... FROM items ORDER BY id
SelectAll(tbl) == [i \in 1..Cardinality(Ids(tbl)) |-> ToItem(RowOf(tbl, Ascending(Ids(tbl))[i]))]

\* faulty variant of SelectById: the column list lacks description
SelectByIdNoDescription(tbl, id) ==
    IF id \in Ids(tbl) THEN Some([ToItem(RowOf(tbl, id)) EXCEPT !.description = None]) ELSE None

\* SELECT ... FROM items WHERE id = $1, fetch_optional
SelectById(tbl, id) == IF id \in Ids(tbl) THEN Some(ToItem(RowOf(tbl, id))) ELSE None

\* nextval of the id column's sequence
NextVal(s) == s + 1

\* the primary key on id admits the row
PrimaryKeyAdmits(tbl, row) == row.id \notin Ids(tbl)

\* faulty variant of InsertedRow: an absent description is bound as the empty string
InsertedRowEmptyDescription(tbl, s, t, name, description, quantity, price) ==
    [id |-> NextVal(s), name |-> name,
     description |-> (IF description = None THEN Some("") ELSE description),
     quantity |-> quantity, price |-> ToNumeric(price), created_at |-> t]

\* faulty variant of InsertedRow: the statement supplies the id itself, the row count plus one
InsertedRowCountId(tbl, s, t, name, description, quantity, price) ==
    [id |-> Cardinality(tbl) + 1, name |-> name, description |-> description,
     quantity |-> quantity, price |-> ToNumeric(price), created_at |-> t]

\* INSERT INTO items (name, description, quantity, price) VALUES ($1..$4):
\* the row the statement adds to tbl; id and created_at come from the column
\* defaults, the sequence at s and now() at t
InsertedRow(tbl, s, t, name, description, quantity, price) ==
    [id |-> NextVal(s), name |-> name, description |-> description,
     quantity |-> quantity, price |-> ToNumeric(price), created_at |-> t]

\* faulty variant of UpdatedTable: SET each column to COALESCE(supplied value, column)
UpdatedTableCoalesce(tbl, l) ==
    {IF r.id = l.id
       THEN [r EXCEPT !.name = unwrap_or(l.input.name, r.name),
                      !.description = or(l.input.description, r.description),
                      !.quantity = unwrap_or(l.input.quantity, r.quantity),
                      !.price = IF l.input.price = None THEN r.price
                                ELSE ToNumeric(l.input.price[1])]
       ELSE r : r \in tbl}

\* faulty variant of UpdatedTable: the row is inserted anew when no row has the id
UpsertedTable(tbl, l) ==
    IF l.id \in Ids(tbl)
      THEN {IF r.id = l.id
              THEN [r EXCEPT !.name = l.new_name, !.description = l.new_description,
                             !.quantity = l.new_quantity, !.price = ToNumeric(l.new_price)]
              ELSE r : r \in tbl}
      ELSE tbl \cup {[id |-> l.id, name |-> l.new_name, description |-> l.new_description,
                      quantity |-> l.new_quantity, price |-> ToNumeric(l.new_price),
                      created_at |-> l.existing[1].created_at]}

\* faulty variant of UpdatedTable: the statement sets three columns and leaves price to a
\* second statement
UpdatedTableWithoutPrice(tbl, l) ==
    {IF r.id = l.id
       THEN [r EXCEPT !.name = l.new_name, !.description = l.new_description,
                      !.quantity = l.new_quantity]
       ELSE r : r \in tbl}

\* faulty variant of UpdatedTable: the statement without its WHERE clause
UpdatedTableAllRows(tbl, l) ==
    {[r EXCEPT !.name = l.new_name, !.description = l.new_description,
               !.quantity = l.new_quantity, !.price = ToNumeric(l.new_price)] : r \in tbl}

\* faulty variant of UpdatedTable: an empty description is written as NULL
UpdatedTableNullIfEmpty(tbl, l) ==
    {IF r.id = l.id
       THEN [r EXCEPT !.name = l.new_name,
                      !.description = IF l.new_description = Some("") THEN None
                                      ELSE l.new_description,
                      !.quantity = l.new_quantity, !.price = ToNumeric(l.new_price)]
       ELSE r : r \in tbl}

\* UPDATE items SET name = $1, description = $2, quantity = $3, price = $4 WHERE id = $5
\* with the locals l of update_item bound: the table after the statement
UpdatedTable(tbl, l) ==
    {IF r.id = l.id
       THEN [r EXCEPT !.name = l.new_name, !.description = l.new_description,
                      !.quantity = l.new_quantity, !.price = ToNumeric(l.new_price)]
       ELSE r : r \in tbl}

\* DELETE FROM items WHERE id = $1: the table after the statement
DeletedTable(tbl, id) == {r \in tbl : r.id # id}

\* faulty variant of Removed: >= for >
RemovedAlways(rows_affected) == rows_affected >= 0

\* res.rows_affected() > 0
Removed(rows_affected) == rows_affected > 0

\* ------------------------------------------------------------- vocabulary

Procs == {"p1", "p2"}

\* the one task of the sequential specification
SoloProcs == {"p1"}

\* ids the ghost records are kept for
IdArgs == 1..(IF MaxId > SoloMaxId THEN MaxId ELSE SoloMaxId)

\* values of now() at insert time, concurrent and sequential specification
Times == {1}

SoloTimes == {1, 2}

\* CreateItem values of the concurrent specification
CreateInputs ==
    {[name |-> "a", description |-> None, quantity |-> None, price |-> None]}

\* UpdateItem values of the concurrent specification
UpdateInputs ==
    {[name |-> None, description |-> None, quantity |-> None, price |-> Some(9994)],
     [name |-> None, description |-> None, quantity |-> Some(7), price |-> None]}

\* CreateItem values of the sequential specification: every field present or absent
SoloCreateInputs ==
    [name : {"a"}, description : {None, Some("d")}, quantity : {None, Some(5)},
     price : {None, Some(12345), Some(F64Infinity)}]

\* UpdateItem values of the sequential specification: every field present or absent
SoloUpdateInputs ==
    [name : {None, Some("b")}, description : {None, Some("")}, quantity : {None, Some(5)},
     price : {None, Some(12345), Some(F64Infinity)}]

NoInput == [name |-> None, description |-> None, quantity |-> None, price |-> None]

\* Result<_, DbError>
Ok(v) == [tag |-> "Ok", val |-> v, err |-> "none"]

Err(e) == [tag |-> "Err", val |-> <<>>, err |-> e]

\* what the last query handed back: to the caller of the operation, or to
\* update_item (op "update.get_item") when its get_item found the row
Response(p, op, id, input, res, existing, overlap) ==
    [op |-> op, id |-> id, input |-> input, res |-> res,
     existing |-> existing, overlap |-> overlap]

NoLoc ==
    [id |-> 0, input |-> NoInput, existing |-> None, new_name |-> "", new_description |-> None,
     new_quantity |-> 0, new_price |-> 0, overlap |-> None]

\* the four values a statement bound, as the table holds them
Bound(name, description, quantity, price) ==
    [name |-> name, description |-> description, quantity |-> quantity,
     price |-> (IF price < 0 THEN 0 - ((5 - price) \div 10) ELSE (price + 5) \div 10)]

\* every in-flight update of `id` other than p's learns that `id` was written
Overlapped(p, id, op, input) ==
    [q \in Procs |->
        IF q # p /\ pc[q] = "merged" /\ loc[q].id = id
          THEN [loc[q] EXCEPT !.overlap = Some([op |-> op, input |-> input])]
          ELSE loc[q]]

\* ------------------------------------------------------------- the process

\* what get_db_pool finds: DATABASE_URL absent, not unicode, not a connection
\* URL, naming a store that does not answer or that rejects the credentials,
\* or naming a store that accepts the connection
DatabaseUrls == {"absent", "not_unicode", "malformed", "unreachable", "auth_rejected", "good"}

ServerTasks == 1..NumTasks

PgPool == [max_connections |-> max_connections]

\* no result yet
NotYet == [tag |-> "none", val |-> <<>>, err |-> "none"]

\* get_db_pool: env::var fails for an absent or non-unicode variable; connect
\* parses the URL and opens a connection, and fails with an sqlx::Error
get_db_pool(c) ==
    IF c \in {"absent", "not_unicode"} THEN Err("EnvVar")
    ELSE IF c \in {"malformed", "unreachable", "auth_rejected"} THEN Err("Sqlx")
    ELSE Ok(<<PgPool>>)

\* faulty variant of Propagate: the error is dropped and main goes on
PropagateNothing(res, next) == next

\* the ? of main: main returns the error, or goes on
Propagate(res, next) == IF res.tag = "Ok" THEN next ELSE "exited"

\* connections checked out of the pool
InUse(c) == LET RECURSIVE Sum(_)
                Sum(n) == IF n = 0 THEN 0 ELSE c[n] + Sum(n - 1)
            IN  Sum(NumTasks)

\* faulty variant of CanAcquire: a pool without the bound
CanAcquireUnbounded(c) == TRUE

\* the pool hands out a connection while fewer than max_connections are in use
CanAcquire(c) == InUse(c) < extension[1].max_connections

\* faulty variant of Released: an update keeps the connection of its read
\* while it issues its write
ReleasedAtReturn(n, continuing) == IF continuing THEN n ELSE 0

\* a query gives its connection back to the pool when its result is fetched
Released(n, continuing) == n - 1

\* ------------------------------------------------------------------- state

\* main is serving: the pool is acquired and the router built
Serving ==
    /\ config = "good"
    /\ main_pc = "serving"
    /\ pool_res = Ok(<<PgPool>>)
    /\ calls = 1
    /\ extension = Some(PgPool)
    /\ task = [t \in ServerTasks |-> "idle"]
    /\ conn = [t \in ServerTasks |-> 0]

Init ==
    /\ Serving
    /\ items = {}
    /\ seq = 0
    /\ pc = [p \in Procs |-> "idle"]
    /\ loc = [p \in Procs |-> NoLoc]
    /\ resp = Response("none", "none", 0, NoInput, Ok(<<>>), None, None)
    /\ shown = [i \in IdArgs |-> [by |-> "none", val |-> None]]
    /\ written = [i \in IdArgs |-> None]
    /\ deleted = {}
    /\ log = <<>>

\* list_items
List(p, ok) ==
    /\ pc[p] = "idle"
    /\ resp' = Response(p, "list", 0, NoInput,
                        IF ok THEN Ok(SelectAll(items)) ELSE Err("Io"), None, None)
    /\ UNCHANGED <<items, seq, pc, loc, shown, written, deleted, log>>
    /\ UNCHANGED svars

\* get_item
Get(p, id, ok) ==
    /\ pc[p] = "idle"
    /\ resp' = Response(p, "get", id, NoInput,
                        IF ok THEN Ok(SelectById(items, id)) ELSE Err("Io"), None, None)
    /\ UNCHANGED <<items, seq, pc, loc, shown, written, deleted, log>>
    /\ UNCHANGED svars

\* create_item
Create(p, input, t, ok, cap) ==
    /\ pc[p] = "idle"
    /\ seq < cap
    /\ LET quantity == unwrap_or(input.quantity, 0)
           price == unwrap_or(input.price, 0)
           row == InsertedRow(items, seq, t, input.name, input.description, quantity, price)
       IN  IF ~ok
             THEN /\ resp' = Response(p, "create", 0, input, Err("Io"), None, None)
                  /\ UNCHANGED <<items, seq, shown, written, log>>
           ELSE IF ~NumericFits(price)
             THEN /\ resp' = Response(p, "create", 0, input, Err("Database"), None, None)
                  /\ seq' \in {seq, NextVal(seq)}
                  /\ UNCHANGED <<items, shown, written, log>>
           ELSE IF ~PrimaryKeyAdmits(items, row)
             THEN /\ resp' = Response(p, "create", 0, input, Err("Database"), None, None)
                  /\ seq' = NextVal(seq)
                  /\ UNCHANGED <<items, shown, written, log>>
           ELSE /\ items' = items \cup {row}
                /\ seq' = NextVal(seq)
                /\ resp' = Response(p, "create", row.id, input, Ok(Some(ToItem(row))), None, None)
                /\ shown' = [shown EXCEPT ![row.id] = [by |-> "create", val |-> Some(ToItem(row))]]
                /\ written' = [written EXCEPT ![row.id] =
                                  Some(Bound(input.name, input.description, quantity, price))]
                /\ log' = Append(log, row.id)
    /\ UNCHANGED <<pc, loc, deleted>>
    /\ UNCHANGED svars

\* update_item, up to the locals new_name .. new_price
UpdateRead(p, id, input, ok) ==
    /\ pc[p] = "idle"
    /\ LET found == SelectById(items, id)
       IN  IF ~ok
             THEN /\ resp' = Response(p, "update", id, input, Err("Io"), None, None)
                  /\ UNCHANGED <<pc, loc>>
           ELSE IF found = None
             THEN /\ resp' = Response(p, "update", id, input, Ok(None), None, None)
                  /\ UNCHANGED <<pc, loc>>
           ELSE LET existing == found[1]
                IN  /\ pc' = [pc EXCEPT ![p] = "merged"]
                    /\ loc' = [loc EXCEPT ![p] =
                           [id |-> id, input |-> input, existing |-> found,
                            new_name |-> unwrap_or(input.name, existing.name),
                            new_description |-> or(input.description, existing.description),
                            new_quantity |-> unwrap_or(input.quantity, existing.quantity),
                            new_price |-> unwrap_or(input.price, existing.price),
                            overlap |-> None]]
                    /\ resp' = Response(p, "update.get_item", id, input, Ok(found), None, None)
    /\ UNCHANGED <<items, seq, shown, written, deleted, log>>
    /\ UNCHANGED svars

\* faulty variant of UpdateWrite: an UPDATE without RETURNING and then a SELECT
\* of the row, where a failure (~ok) strikes the SELECT after the UPDATE ran
UpdateWriteThenSelect(p, ok) ==
    /\ pc[p] = "merged"
    /\ pc' = [pc EXCEPT ![p] = "idle"]
    /\ LET l == loc[p]
           after == UpdatedTable(items, l)
       IN  /\ items' = IF NumericFits(l.new_price) THEN after ELSE items
           /\ resp' = Response(p, "update", l.id, l.input,
                               IF ~ok THEN Err("Io")
                               ELSE IF ~NumericFits(l.new_price) THEN Err("Database")
                               ELSE IF l.id \notin Ids(after) THEN Err("RowNotFound")
                               ELSE Ok(Some(ToItem(RowOf(after, l.id)))),
                               l.existing, l.overlap)
           /\ loc' = [loc EXCEPT ![p] = NoLoc]
    /\ UNCHANGED <<seq, shown, written, deleted, log>>
    /\ UNCHANGED svars

\* update_item, the UPDATE ... RETURNING statement and the return
UpdateWrite(p, ok) ==
    /\ pc[p] = "merged"
    /\ pc' = [pc EXCEPT ![p] = "idle"]
    /\ LET l == loc[p]
           after == UpdatedTable(items, l)
       IN  IF ~ok
             THEN /\ resp' = Response(p, "update", l.id, l.input, Err("Io"), l.existing, l.overlap)
                  /\ loc' = [loc EXCEPT ![p] = NoLoc]
                  /\ UNCHANGED <<items, shown, written>>
           ELSE IF ~NumericFits(l.new_price)
             THEN /\ resp' = Response(p, "update", l.id, l.input, Err("Database"),
                                      l.existing, l.overlap)
                  /\ loc' = [loc EXCEPT ![p] = NoLoc]
                  /\ UNCHANGED <<items, shown, written>>
           ELSE IF l.id \notin Ids(after)
             THEN /\ resp' = Response(p, "update", l.id, l.input, Err("RowNotFound"),
                                      l.existing, l.overlap)
                  /\ loc' = [loc EXCEPT ![p] = NoLoc]
                  /\ UNCHANGED <<items, shown, written>>
           ELSE /\ items' = after
                /\ resp' = Response(p, "update", l.id, l.input,
                                    Ok(Some(ToItem(RowOf(after, l.id)))), l.existing, l.overlap)
                /\ loc' = [Overlapped(p, l.id, "update", l.input) EXCEPT ![p] = NoLoc]
                /\ shown' = [shown EXCEPT ![l.id] =
                                [by |-> "update", val |-> Some(ToItem(RowOf(after, l.id)))]]
                /\ written' = [written EXCEPT ![l.id] =
                                  Some(Bound(l.new_name, l.new_description,
                                             l.new_quantity, l.new_price))]
    /\ UNCHANGED <<seq, deleted, log>>
    /\ UNCHANGED svars

\* delete_item
Delete(p, id, ok) ==
    /\ pc[p] = "idle"
    /\ LET after == DeletedTable(items, id)
           rows_affected == Cardinality(items) - Cardinality(after)
       IN  IF ~ok
             THEN /\ resp' = Response(p, "delete", id, NoInput, Err("Io"), None, None)
                  /\ UNCHANGED <<items, loc, shown, written, deleted>>
           ELSE /\ items' = after
                /\ resp' = Response(p, "delete", id, NoInput, Ok(<<Removed(rows_affected)>>),
                                    None, None)
                /\ IF rows_affected > 0
                     THEN /\ loc' = Overlapped(p, id, "delete", NoInput)
                          /\ shown' = [shown EXCEPT ![id] = [by |-> "delete", val |-> None]]
                          /\ written' = [written EXCEPT ![id] = None]
                          /\ deleted' = deleted \cup {id}
                     ELSE UNCHANGED <<loc, shown, written, deleted>>
    /\ UNCHANGED <<seq, pc, log>>
    /\ UNCHANGED svars

\* the tasks P issue operations with inputs from CI and UI, at times T, in any
\* interleaving, while the sequence has handed out fewer than cap ids; a query
\* runs on the store (ok) or fails for the lost connection before it runs
\* (~ok), as OKs allows
Step(P, CI, UI, T, OKs, cap) ==
    \E p \in P :
        \/ \E ok \in OKs : List(p, ok)
        \/ \E id \in 1..cap, ok \in OKs : Get(p, id, ok)
        \/ \E input \in CI, t \in T, ok \in OKs : Create(p, input, t, ok, cap)
        \/ \E id \in 1..cap, input \in UI, ok \in OKs : UpdateRead(p, id, input, ok)
        \/ \E ok \in OKs : UpdateWrite(p, ok)
        \/ \E id \in 1..cap, ok \in OKs : Delete(p, id, ok)

Next == Step(Procs, CreateInputs, UpdateInputs, Times, BOOLEAN, MaxId)

\* concurrent tasks over a few inputs
Spec == Init /\ [][Next]_vars

NextSolo == Step(SoloProcs, SoloCreateInputs, SoloUpdateInputs, SoloTimes, {TRUE}, SoloMaxId)

\* one task over every shape of input
SpecSolo == Init /\ [][NextSolo]_vars

\* -------------------------------------------------------- main and the pool

InitServer ==
    /\ config \in DatabaseUrls
    /\ main_pc = "start"
    /\ pool_res = NotYet
    /\ calls = 0
    /\ extension = None
    /\ task = [t \in ServerTasks |-> "idle"]
    /\ conn = [t \in ServerTasks |-> 0]
    /\ items = {}
    /\ seq = 0
    /\ pc = [p \in Procs |-> "idle"]
    /\ loc = [p \in Procs |-> NoLoc]
    /\ resp = Response("none", "none", 0, NoInput, Ok(<<>>), None, None)
    /\ shown = [i \in IdArgs |-> [by |-> "none", val |-> None]]
    /\ written = [i \in IdArgs |-> None]
    /\ deleted = {}
    /\ log = <<>>

\* main: let pool = get_db_pool().await?
GetDbPool ==
    /\ main_pc = "start"
    /\ pool_res' = get_db_pool(config)
    /\ calls' = calls + 1
    /\ main_pc' = Propagate(pool_res', "pool")
    /\ UNCHANGED <<config, extension, task, conn>>
    /\ UNCHANGED dvars

\* main: the templates, the router with its Extension(pool) layer, the address
\* and the server; ok when the templates load, the address parses and binds
Serve(ok) ==
    /\ main_pc = "pool"
    /\ main_pc' = IF ok THEN "serving" ELSE "exited"
    /\ extension' = IF ok THEN pool_res.val ELSE extension
    /\ UNCHANGED <<config, pool_res, calls, task, conn>>
    /\ UNCHANGED dvars

\* a handler calls a repository operation, which issues its first query
Issue(t) ==
    /\ main_pc = "serving"
    /\ task[t] = "idle"
    /\ task' = [task EXCEPT ![t] = "waiting"]
    /\ UNCHANGED <<config, main_pc, pool_res, calls, extension, conn>>
    /\ UNCHANGED dvars

\* the pool hands a connection to a waiting query
Acquire(t) ==
    /\ task[t] \in {"waiting", "waiting_write"}
    /\ CanAcquire(conn)
    /\ task' = [task EXCEPT ![t] = IF task[t] = "waiting" THEN "running" ELSE "running_write"]
    /\ conn' = [conn EXCEPT ![t] = conn[t] + 1]
    /\ UNCHANGED <<config, main_pc, pool_res, calls, extension>>
    /\ UNCHANGED dvars

\* the store answers the first query of an operation: the operation returns,
\* or it is an update_item whose get_item found the row, which merges and
\* issues its UPDATE (continuing)
Complete(t, continuing) ==
    /\ task[t] = "running"
    /\ task' = [task EXCEPT ![t] = IF continuing THEN "waiting_write" ELSE "idle"]
    /\ conn' = [conn EXCEPT ![t] = Released(conn[t], continuing)]
    /\ UNCHANGED <<config, main_pc, pool_res, calls, extension>>
    /\ UNCHANGED dvars

\* the store answers the UPDATE and update_item returns
CompleteWrite(t) ==
    /\ task[t] = "running_write"
    /\ task' = [task EXCEPT ![t] = "idle"]
    /\ conn' = [conn EXCEPT ![t] = Released(conn[t], FALSE)]
    /\ UNCHANGED <<config, main_pc, pool_res, calls, extension>>
    /\ UNCHANGED dvars

NextServer ==
    \/ GetDbPool
    \/ \E ok \in BOOLEAN : Serve(ok)
    \/ \E t \in ServerTasks :
          \/ Issue(t)
          \/ Acquire(t)
          \/ \E continuing \in BOOLEAN : Complete(t, continuing)
          \/ CompleteWrite(t)

\* the process from the start of main, every configuration
SpecServer == InitServer /\ [][NextServer]_vars

\* the pool serves its waiters in turn (SF on Acquire) and the store answers
\* every query it was sent (WF)
FairServer ==
    \A t \in ServerTasks :
        /\ SF_vars(Acquire(t))
        /\ WF_vars(\E continuing \in BOOLEAN : Complete(t, continuing))
        /\ WF_vars(CompleteWrite(t))

\* the process on a responsive store, under a fair pool
SpecServerFair == InitServer /\ [][NextServer]_vars /\ FairServer

\* ---------------------------------------------------------------- handlers

\* edit_item_form: the response to the result res of get_item, where the
\* template renders (render_ok) or not
edit_item_form(res, render_ok) ==
    IF res.tag = "Err" THEN "INTERNAL_SERVER_ERROR"
    ELSE IF res.val = None THEN "NOT_FOUND"
    ELSE IF render_ok THEN "Html" ELSE "INTERNAL_SERVER_ERROR"

\* update_item_handler: the response to the result res of update_item
update_item_handler(res) == IF res.tag = "Err" THEN "INTERNAL_SERVER_ERROR" ELSE "Redirect"

\* delete_item_handler: the response to the result res of delete_item
delete_item_handler(res) == IF res.tag = "Err" THEN "INTERNAL_SERVER_ERROR" ELSE "Redirect"

\* the responses the handler that selects an item by id may give to the
\* outcome r of its repository operation
HandlerResponses(r) ==
    IF r.op = "get" THEN {edit_item_form(r.res, render_ok) : render_ok \in BOOLEAN}
    ELSE IF r.op = "update" THEN {update_item_handler(r.res)}
    ELSE IF r.op = "delete" THEN {delete_item_handler(r.res)}
    ELSE {}

\* ------------------------------------------------------------------ claims

IsOk(r) == r.res.tag = "Ok"

\* a finite f64 price as NUMERIC(10,2) reads back: the nearest hundredth, ties
\* away from zero (12.345 reads back 12.35)
RoundedToCents(f) == IF f < 0 THEN 0 - (((0 - f) + 5) \div 10) * 10 ELSE ((f + 5) \div 10) * 10

\* an update that wrote and returned, with no other write of its id since its read
CleanUpdate == resp.op = "update" /\ IsOk(resp) /\ resp.res.val # None /\ resp.overlap = None

\* C1 (as amended): an update of an existing item I with input U that no other
\* write of I.id overlaps and that succeeds returns a record whose name,
\* description and quantity are U's value if U supplied one and I's otherwise,
\* whose price is U's value rounded to two decimals if U supplied one and I's
\* otherwise, whose id and created_at are I's; the row then reads back as that
\* record, and a get of the id returns the record the last update returned.
C1_UpdateMergesRoundedPrice ==
    /\ CleanUpdate =>
          LET rec == resp.res.val[1]
              I == resp.existing[1]
              U == resp.input
          IN  /\ rec.name = (IF U.name = None THEN I.name ELSE U.name[1])
              /\ rec.description = (IF U.description = None THEN I.description ELSE U.description)
              /\ rec.quantity = (IF U.quantity = None THEN I.quantity ELSE U.quantity[1])
              /\ rec.price = (IF U.price = None THEN I.price ELSE RoundedToCents(U.price[1]))
              /\ rec.id = I.id
              /\ rec.created_at = I.created_at
              /\ \E r \in items : ToItem(r) = rec
    /\ (resp.op = "get" /\ IsOk(resp) /\ shown[resp.id].by = "update")
          => resp.res.val = shown[resp.id].val

\* C1 witness: a price-only update changed the price of an item, to the cents
C1_PriceOnlyUpdateDone ==
    /\ CleanUpdate
    /\ resp.input = [name |-> None, description |-> None, quantity |-> None, price |-> Some(12345)]
    /\ resp.existing[1].price = 0
    /\ resp.existing[1].description = Some("d")
    /\ resp.res.val[1].price = 12350

\* C1 (as stated): the returned price equals U's price whenever U supplied one
C1_ReturnedPriceIsInput ==
    (CleanUpdate /\ resp.input.price # None) => resp.res.val[1].price = resp.input.price[1]

\* C2: whenever an update returns success although another update of the same id
\* wrote (and returned success) between its read and its write, every field that
\* the other update supplied and this one did not is back at the value this one
\* read: the other update's change of that field is lost.
C2_OverlappingUpdateLosesChange ==
    (resp.op = "update" /\ IsOk(resp) /\ resp.overlap # None /\ resp.overlap[1].op = "update")
       => LET rec == resp.res.val[1]
              I == resp.existing[1]
              U == resp.input
              V == resp.overlap[1].input
          IN  /\ (V.name # None /\ U.name = None) => rec.name = I.name
              /\ (V.description # None /\ U.description = None) => rec.description = I.description
              /\ (V.quantity # None /\ U.quantity = None) => rec.quantity = I.quantity
              /\ (V.price # None /\ U.price = None) => rec.price = I.price

\* C2 witness: A set only the price, B set only the quantity to 7 in between, both
\* returned success, and the row is back at the old quantity
C2_QuantityChangeLost ==
    /\ resp.op = "update" /\ IsOk(resp)
    /\ resp.input = [name |-> None, description |-> None, quantity |-> None, price |-> Some(9994)]
    /\ resp.overlap = Some([op |-> "update",
                            input |-> [name |-> None, description |-> None,
                                       quantity |-> Some(7), price |-> None]])
    /\ resp.existing[1].quantity = 0
    /\ \E r \in items : r.id = resp.id /\ r.quantity = 0 /\ r.price = 999

\* C3: get, update and delete of an id that has no row leave the store as it is
\* and, unless the connection failed, return empty, empty and false.
C3_AbsentIdIsEmptyNotError ==
    [][(/\ resp'.id \notin Ids(items)
        /\ \/ resp'.op \in {"get", "delete"}
           \/ resp'.op = "update" /\ resp'.existing = None)
        => /\ items' = items
           /\ seq' = seq
           /\ resp'.res.err # "Io"
                 => resp'.res = (IF resp'.op = "delete" THEN Ok(<<FALSE>>) ELSE Ok(None))]_vars

\* C3 witness: an update of an id whose row was deleted returned empty
C3_UpdateOfDeletedIdEmpty ==
    /\ resp.op = "update" /\ resp.existing = None /\ resp.res = Ok(None)
    /\ resp.id \in deleted

\* C4 (as stated): an update never returns an error because the record is missing
C4_UpdateNeverFailsOnMissingRow ==
    resp.op = "update" => resp.res.err # "RowNotFound"

\* C5: an id whose delete returned true has no row, a get of it returns empty and
\* no list contains it, whatever ran in between, a write of an update that read
\* the row before the delete included.
C5_DeletedStaysDeleted ==
    /\ \A id \in deleted : id \notin Ids(items)
    /\ (resp.op = "get" /\ IsOk(resp) /\ resp.id \in deleted) => resp.res.val = None
    /\ (resp.op = "list" /\ IsOk(resp))
          => \A i \in 1..Len(resp.res.val) : resp.res.val[i].id \notin deleted

\* C5 witness: an update that read the row before the delete has written after it
C5_StaleWriteAfterDelete ==
    /\ resp.op = "update"
    /\ resp.existing # None
    /\ resp.overlap = Some([op |-> "delete", input |-> NoInput])
    /\ resp.res.err # "Io"
    /\ resp.id \in deleted

\* C6: a get of an id that was created and neither updated nor deleted since
\* returns the record the create returned, equal in every field.
C6_GetReturnsCreated ==
    (resp.op = "get" /\ IsOk(resp) /\ shown[resp.id].by = "create")
       => resp.res.val = shown[resp.id].val

\* C6 witness: a get returned an item created with every field supplied
C6_GetAfterCreate ==
    /\ resp.op = "get" /\ IsOk(resp) /\ shown[resp.id].by = "create"
    /\ resp.res.val # None
    /\ resp.res.val[1].description = Some("d")
    /\ resp.res.val[1].price = 12350

\* C7 (as amended): a create that succeeds persists and returns quantity as
\* supplied or 0, price as supplied rounded to two decimals or 0.0, and
\* description as supplied, null when absent.
C7_CreateDefaultsRoundedPrice ==
    (resp.op = "create" /\ IsOk(resp))
       => LET rec == resp.res.val[1]
              C == resp.input
          IN  /\ rec.quantity = (IF C.quantity = None THEN 0 ELSE C.quantity[1])
              /\ rec.price = (IF C.price = None THEN 0 ELSE RoundedToCents(C.price[1]))
              /\ rec.description = C.description
              /\ rec.name = C.name
              /\ \E r \in items : ToItem(r) = rec

\* C7 witness: a create with only the name returned the defaults
C7_CreatedWithDefaults ==
    /\ resp.op = "create" /\ IsOk(resp)
    /\ resp.input = [name |-> "a", description |-> None, quantity |-> None, price |-> None]
    /\ resp.res.val[1].quantity = 0
    /\ resp.res.val[1].price = 0
    /\ resp.res.val[1].description = None

\* C7 (as stated): the returned price equals the input's price whenever supplied
C7_CreatedPriceIsInput ==
    (resp.op = "create" /\ IsOk(resp) /\ resp.input.price # None)
       => resp.res.val[1].price = resp.input.price[1]

\* C8: a list fails only with the connection; its result holds exactly the rows
\* of the table at its query, each once, in strictly ascending id order, and is
\* the empty sequence on an empty table.
C8_ListIsTableAscending ==
    resp.op = "list"
       => /\ IsOk(resp) \/ resp.res.err = "Io"
          /\ IsOk(resp)
                => LET v == resp.res.val
                   IN  /\ Len(v) = Cardinality(items)
                       /\ {v[i] : i \in 1..Len(v)} = {ToItem(r) : r \in items}
                       /\ \A i, j \in 1..Len(v) : i < j => v[i].id < v[j].id

\* C8 witness: a list returned two items
C8_ListOfTwo == resp.op = "list" /\ IsOk(resp) /\ Len(resp.res.val) = 2

\* C9: no two rows share an id, and no id is handed out by two creates, also
\* after its row was deleted.
C9_IdsUniqueNeverReused ==
    /\ \A r1, r2 \in items : r1.id = r2.id => r1 = r2
    /\ \A i, j \in 1..Len(log) : i # j => log[i] # log[j]

\* C9 witness: a create returned after the row of an earlier create was deleted
C9_CreateAfterDelete ==
    /\ resp.op = "create" /\ IsOk(resp)
    /\ Len(log) = 2
    /\ log[1] \in deleted

\* C10: every row holds the four values of the last statement that wrote it, all
\* four at once; a get or a list sees a row only so, and an update that fails
\* leaves the four as they were.
C10_RowsWrittenWhole ==
    LET Whole(it) ==
            written[it.id] = Some([name |-> it.name, description |-> it.description,
                                   quantity |-> it.quantity, price |-> it.price \div 10])
    IN  /\ \A r \in items : Whole(ToItem(r))
        /\ (resp.op \in {"get", "list"} /\ IsOk(resp))
              => \A i \in 1..Len(resp.res.val) : Whole(resp.res.val[i])

\* C10 witness: a get saw a row that an update had written, while another update
\* of the same id was between its read and its write
C10_GetBetweenReadAndWrite ==
    /\ resp.op = "get" /\ IsOk(resp) /\ resp.res.val # None
    /\ shown[resp.id].by = "update"
    /\ \E q \in Procs : pc[q] = "merged" /\ loc[q].id = resp.id /\ loc[q].overlap # None

\* C11: an update of an existing item I whose input has every field absent, that
\* no other write of I.id overlaps and that succeeds, returns a record equal to I
\* in name, description, quantity and price, and the stored row still reads
\* back as I.
C11_EmptyUpdateIsIdentity ==
    (CleanUpdate /\ resp.input = NoInput)
       => LET rec == resp.res.val[1]
              I == resp.existing[1]
          IN  /\ rec.name = I.name
              /\ rec.description = I.description
              /\ rec.quantity = I.quantity
              /\ rec.price = I.price
              /\ resp.id \in Ids(items)
              /\ ToItem(RowOf(items, resp.id)) = I

\* C11 witness: an empty update of an item that has a description and a price
C11_EmptyUpdateDone ==
    /\ CleanUpdate
    /\ resp.input = NoInput
    /\ resp.existing[1].description = Some("d")
    /\ resp.existing[1].price = 12350
    /\ resp.existing[1].quantity = 5
    /\ resp.res.val = resp.existing

C16_OperationsChangeOnlyTheirRow ==
    [][/\ resp'.op \in {"get", "list", "update.get_item"} => items' = items
       /\ resp'.op = "create" =>
             /\ items \subseteq items'
             /\ IF resp'.res.tag = "Ok"
                  THEN /\ Cardinality(items' \ items) = 1
                       /\ \A r \in items' \ items : r.id \notin Ids(items)
                  ELSE items' = items
       /\ resp'.op = "update" =>
             /\ Ids(items') = Ids(items)
             /\ Cardinality(items') = Cardinality(items)
             /\ \A r \in items : r.id # resp'.id => r \in items'
             /\ \A r \in items : r.id = resp'.id =>
                    RowOf(items', r.id).created_at = r.created_at
       /\ resp'.op = "delete" =>
             /\ items' \subseteq items
             /\ \A r \in items \ items' : r.id = resp'.id]_vars

\* C16 witness: an update changed the price of one of two rows
C16_UpdatedOneOfTwo ==
    /\ resp.op = "update" /\ IsOk(resp) /\ resp.res.val # None
    /\ resp.res.val[1].price = 9990
    /\ Cardinality(items) = 2
    /\ \E r \in items : r.id # resp.id /\ r.price = 0

MissingRecord(r) ==
    /\ r.op \in {"get", "update", "delete"}
    /\ r.res.tag = "Ok"
    /\ r.res.val = (IF r.op = "delete" THEN <<FALSE>> ELSE None)

\* C15 (as stated): in the handlers that select an item by id, a store failure
\* is answered with a server error and a missing record with not found, never
\* with a success or a redirect.
C15_MissingRecordIsNotFound ==
    /\ (resp.op \in {"get", "update", "delete"} /\ resp.res.tag = "Err")
          => HandlerResponses(resp) = {"INTERNAL_SERVER_ERROR"}
    /\ MissingRecord(resp) => HandlerResponses(resp) = {"NOT_FOUND"}

C13_FailuresClassified ==
    calls = 1 =>
       /\ config \in {"absent", "not_unicode", "malformed"} => pool_res = Err("EnvVar")
       /\ config \in {"unreachable", "auth_rejected"} => pool_res = Err("Sqlx")
       /\ pool_res.tag = "Err" => (pool_res.val = None /\ extension = None)

\* C14: get_db_pool is called at most once, and before the router is built;
\* when it failed main has returned, no router was built and no task ever
\* issues a query; every task that runs a repository operation does so on the
\* pool that the one call returned.
C14_PoolAcquiredOnceOrFatal ==
    /\ calls <= 1
    /\ main_pc # "start" => (calls = 1 /\ pool_res = get_db_pool(config))
    /\ pool_res.tag = "Err" =>
          /\ main_pc = "exited"
          /\ extension = None
          /\ \A t \in ServerTasks : task[t] = "idle" /\ conn[t] = 0
    /\ extension # None => (calls = 1 /\ pool_res.tag = "Ok" /\ extension = pool_res.val)
    /\ \A t \in ServerTasks :
          task[t] # "idle" =>
             (main_pc = "serving" /\ pool_res.tag = "Ok" /\ extension = pool_res.val)

\* C14 witness: the store did not answer, get_db_pool failed and main returned
C14_StartupFailed ==
    /\ config = "unreachable"
    /\ main_pc = "exited"
    /\ calls = 1
    /\ pool_res = Err("Sqlx")

\* C19: every task holds at most one connection, and none while it waits for
\* the pool or stands between the read and the write of an update; and under
\* a fair pool and a store that answers, every operation that was issued
\* returns.
C19_EveryOperationCompletes ==
    /\ [](\A t \in ServerTasks :
             /\ conn[t] <= 1
             /\ task[t] \in {"idle", "waiting", "waiting_write"} => conn[t] = 0)
    /\ \A t \in ServerTasks : (task[t] # "idle") ~> (task[t] = "idle")

\* C19 witness: five updates stand between their read and their write, holding
\* no connection, while a sixth operation holds one
C19_FiveUpdatesBetweenQueries ==
    /\ Cardinality({t \in ServerTasks : task[t] = "waiting_write" /\ conn[t] = 0})
          = max_connections
    /\ \E t \in ServerTasks : task[t] = "running" /\ conn[t] = 1
====
